---- MODULE Spec2Model ----
(***************************************************************************)
(* A model of src/src/XMLHttpRequest.ts: one XMLHttpRequest object, the    *)
(* node http/https transport and file reader it drives, and the timers it  *)
(* arms.  Every public method and every callback the object registers is   *)
(* one action; node's event loop runs each of them to completion.          *)
(***************************************************************************)
EXTENDS Integers, Sequences, FiniteSets, TLC

VARIABLES
    readyState,         \* this.readyState
    status,             \* this.status
    responseText,       \* this.responseText, as the sequence of the pieces appended
    errorFlag,          \* this.errorFlag
    sendFlag,           \* this.sendFlag
    settings,           \* this.settings
    headers,            \* this.headers: a reference to one of the two header objects
    heap,               \* the two header objects: the one `headers` starts with, and defaultHeaders
    headersLowerCase,   \* this.headersLowerCase
    request,            \* this.request: the transport operation held, 0 when undefined
    response,           \* this.response
    disableHeaderCheck, \* this.disableHeaderCheck
    timeout,            \* this.timeout
    ops,                \* the accepted sends, with the transport's / reader's / timer's side of each
    outHeaders,         \* the header set handed to the transport by the last http send
    events,             \* the events dispatched by the last operation, in order
    lastCall,           \* the last operation, and how it returned
    given,              \* per lower-cased name: the setRequestHeader calls accepted since the last open()
    listeners,          \* this.listeners: per event, the callbacks added, in order
    onSlot,             \* the on<event> members that hold a function
    calls               \* the callbacks invoked by the last operation, in order

vars == <<readyState, status, responseText, errorFlag, sendFlag, settings,
          headers, heap, headersLowerCase, request, response, disableHeaderCheck,
          timeout, ops, outHeaders, events, lastCall, given,
          listeners, onSlot, calls>>

-----------------------------------------------------------------------------
(* Bounds of the model *)

MaxSends == 2
MaxChunks == 1
MaxRedirects == 1
MaxJoined == 2
MaxHeaderSends == 1
MaxChain == 11
MaxListeners == 2

-----------------------------------------------------------------------------
(* Program constants *)

UNSENT == 0
OPENED == 1
HEADERS_RECEIVED == 2
LOADING == 3
DONE == 4

RedirectLimit == 10

forbiddenRequestHeaders ==
    {"accept-charset", "accept-encoding", "access-control-request-headers",
     "access-control-request-method", "connection", "content-length",
     "content-transfer-encoding", "cookie", "cookie2", "date", "expect", "host",
     "keep-alive", "origin", "referer", "te", "trailer", "transfer-encoding",
     "upgrade", "via"}

forbiddenRequestMethods == {"TRACE", "TRACK", "CONNECT"}

\* the initial value of this.defaultHeaders; a header value is the sequence of
\* the pieces that ', ' joins, so 'a, b' is <<"a", "b">> and '' is <<"">>
InitDefaultHeaders ==
    [n \in {"User-Agent", "Accept"} |->
        IF n = "User-Agent" THEN <<"ts-XMLHttpRequest">> ELSE <<"*/*">>]

-----------------------------------------------------------------------------
(* Inputs *)

\* responses the transport can deliver: a final one, and a redirect
Responses == {[set |-> TRUE, statusCode |-> 200, location |-> ""],
              [set |-> TRUE, statusCode |-> 302, location |-> "http://a/"]}

\* what the callers of the lifecycle specification pass
LifeInputs ==
    [methods |-> {"GET", "TRACE"}, urls |-> {"http://a/", "file:///f"},
     asyncs |-> BOOLEAN, users |-> {""}, bodies |-> {""},
     names |-> {"HOST"}, values |-> {"a"}, timeouts |-> {0, 1},
     maxVals |-> MaxJoined, maxSends |-> MaxSends,
     maxRedirects |-> MaxRedirects]

\* what the callers of the header specification pass
HeaderInputs ==
    [methods |-> {"GET", "POST"}, urls |-> {"http://a/"},
     asyncs |-> {TRUE}, users |-> {"", "u"}, bodies |-> {""},
     names |-> {"X-Foo", "x-foo", "User-Agent", "HOST"}, values |-> {"a", "b"},
     timeouts |-> {0}, maxVals |-> MaxJoined, maxSends |-> MaxHeaderSends,
     maxRedirects |-> MaxRedirects]

\* what the callers of the redirect specification pass: one kind of request,
\* answered by chains of redirects up to one past the limit of the code
RedirectInputs ==
    [methods |-> {"GET"}, urls |-> {"http://a/"},
     asyncs |-> {TRUE}, users |-> {""}, bodies |-> {""},
     names |-> {"X-Foo"}, values |-> {"a"},
     timeouts |-> {0}, maxVals |-> MaxJoined, maxSends |-> MaxSends,
     maxRedirects |-> MaxChain]

\* the callbacks the callers of the dispatch specification bind, by what they
\* do when invoked: nothing (f, g), addEventListener(event, g), 
\* removeEventListener(event, f), or throw
Callbacks == {"f", "g", "addG", "removeF", "throws"}

\* what the callers of the dispatch specification pass: one asynchronous GET,
\* and callbacks bound for load, the event only the end of a response dispatches
DispatchInputs ==
    [methods |-> {"GET"}, urls |-> {"http://a/"},
     asyncs |-> {TRUE}, users |-> {""}, bodies |-> {""},
     names |-> {"X-Foo"}, values |-> {"a"},
     timeouts |-> {0}, maxVals |-> MaxJoined, maxSends |-> MaxHeaderSends,
     maxRedirects |-> MaxRedirects,
     events |-> {"load"}, callbacks |-> Callbacks, maxListeners |-> MaxListeners]

\* String.prototype.toLowerCase on the names the model uses
toLowerCase(s) ==
    CASE s \in {"X-Foo", "x-foo"} -> "x-foo"
      [] s \in {"User-Agent", "user-agent"} -> "user-agent"
      [] s \in {"Accept", "accept"} -> "accept"
      [] s \in {"Host", "HOST", "host"} -> "host"
      [] s \in {"Authorization", "authorization"} -> "authorization"
      [] s \in {"Content-Length", "content-length"} -> "content-length"
      [] s \in {"Content-Type", "content-type"} -> "content-type"
      [] OTHER -> s

\* Url.parse(url).protocol
Protocol(url) ==
    CASE url = "http://a/" -> "http:"
      [] url = "https://a/" -> "https:"
      [] url = "file:///f" -> "file:"
      [] url = "ftp://a/" -> "ftp:"
      [] OTHER -> ""

\* Url.parse(url).hostname
Hostname(url) ==
    IF url \in {"http://a/", "https://a/", "ftp://a/"} THEN "a" ELSE ""

\* Url.parse(url).port: none of the urls names a port
Port(url) == ""

-----------------------------------------------------------------------------
(* The object's state as one record, so that a method is a function on it *)

NoSettings == [set |-> FALSE, method |-> "", url |-> "", async |-> TRUE, user |-> ""]
NoResponse == [set |-> FALSE, statusCode |-> 0, location |-> ""]
NoCall == [op |-> "new", arg |-> "", res |-> "ok"]
NoOps == <<>>
NoHeaders == [n \in {} |-> <<>>]
NoListeners == [e \in {} |-> <<>>]

Self ==
    [readyState |-> readyState, status |-> status,
     responseText |-> responseText, errorFlag |-> errorFlag, sendFlag |-> sendFlag,
     settings |-> settings, headers |-> headers, heap |-> heap,
     headersLowerCase |-> headersLowerCase, request |-> request,
     response |-> response, disableHeaderCheck |-> disableHeaderCheck,
     timeout |-> timeout, ops |-> ops, outHeaders |-> outHeaders,
     events |-> <<>>, lastCall |-> lastCall, given |-> given,
     listeners |-> listeners, onSlot |-> onSlot, calls |-> <<>>, threw |-> FALSE]

\* how a call returns when it throws before it has changed anything
Rejections == {"InvalidState", "ProtocolNotSupported", "MethodNotSupported"}

Commit(m) ==
    IF m.lastCall.res \in Rejections THEN UNCHANGED vars
    ELSE
    /\ readyState' = m.readyState
    /\ status' = m.status
    /\ responseText' = m.responseText
    /\ errorFlag' = m.errorFlag
    /\ sendFlag' = m.sendFlag
    /\ settings' = m.settings
    /\ headers' = m.headers
    /\ heap' = m.heap
    /\ headersLowerCase' = m.headersLowerCase
    /\ request' = m.request
    /\ response' = m.response
    /\ disableHeaderCheck' = m.disableHeaderCheck
    /\ timeout' = m.timeout
    /\ ops' = m.ops
    /\ outHeaders' = m.outHeaders
    /\ events' = m.events
    /\ lastCall' = m.lastCall
    /\ given' = m.given
    /\ listeners' = m.listeners
    /\ onSlot' = m.onSlot
    /\ calls' = m.calls

Returned(m, op, arg, res) == [m EXCEPT !.lastCall = [op |-> op, arg |-> arg, res |-> res]]

\* the header object this.headers refers to
Headers(m) == m.heap[m.headers]

\* this.headers[name] = value
PutHeader(m, name, value) ==
    [m EXCEPT !.heap[m.headers] = (name :> value) @@ @]

\* a string (as its pieces) is truthy unless it is ''
Truthy(v) == v # <<"">>

Min(a, b) == IF a < b THEN a ELSE b

Range(f) == {f[x] : x \in DOMAIN f}

\* the send the object is working on: the last one accepted
Current(m) == Len(m.ops)

-----------------------------------------------------------------------------
(* dispatchEvent, setState, handleTimeout, handleError, abort *)

dispatchEvent(m, event) ==
    LET logged == [m EXCEPT !.events =
                      Append(@, [ev |-> event, rs |-> m.readyState, st |-> m.status])]
    IN  IF event = "loadend" /\ Current(m) > 0
        THEN [logged EXCEPT !.ops[Current(m)].loadends = Min(@ + 1, 2)]
        ELSE logged

setState(m, state) ==
    IF state = LOADING \/ m.readyState # state
    THEN LET m1 == [m EXCEPT !.readyState = state]
             m2 == IF (m1.settings.set /\ m1.settings.async)
                      \/ m1.readyState < OPENED \/ m1.readyState = DONE
                   THEN dispatchEvent(m1, "readystatechange")
                   ELSE m1
         IN  IF m2.readyState = DONE
             THEN dispatchEvent(IF ~m2.errorFlag THEN dispatchEvent(m2, "load") ELSE m2,
                                "loadend")
             ELSE m2
    ELSE m

\* request.abort() on the transport operation the object holds
CancelRequest(m) ==
    IF m.request # 0
    THEN [m EXCEPT !.ops[m.request].cancelled = TRUE, !.request = 0,
                   !.events = Append(@, [ev |-> "request.abort", rs |-> m.readyState,
                                         st |-> m.status])]
    ELSE m

\* how the current send ended, noted the first time it ends
Ended(m, how) ==
    IF Current(m) > 0 /\ m.ops[Current(m)].term = "none"
    THEN [m EXCEPT !.ops[Current(m)].term = how]
    ELSE m

handleTimeout(m) ==
    LET m1 == CancelRequest(m)
        m2 == [m1 EXCEPT !.status = 0,
                         !.responseText = <<"stack">>, !.errorFlag = TRUE]
    IN  Ended(setState(dispatchEvent(m2, "timeout"), DONE), "timeout")

handleError(m) ==
    LET m1 == [m EXCEPT !.status = 0,
                        !.responseText = <<"stack">>, !.errorFlag = TRUE]
    IN  Ended(setState(dispatchEvent(m1, "error"), DONE), "error")

abort(m) ==
    LET m1 == CancelRequest(m)
        m2 == [m1 EXCEPT !.headers = "def", !.status = 0, !.responseText = <<>>,
                         !.errorFlag = TRUE]
        m3 == IF m2.readyState # UNSENT
                 /\ (m2.readyState # OPENED \/ m2.sendFlag)
                 /\ m2.readyState # DONE
              THEN setState([m2 EXCEPT !.sendFlag = FALSE], DONE)
              ELSE m2
        m4 == [m3 EXCEPT !.readyState = UNSENT]
        m5 == dispatchEvent(m4, "abort")
    IN  [Ended(m5, "abort") EXCEPT
            !.ops = [i \in DOMAIN @ |-> [@[i] EXCEPT !.live = FALSE]]]

-----------------------------------------------------------------------------
(* open, setDisableHeaderCheck, the timeout attribute *)

\* the method check without the forbidden list: what C15 guards against
isAllowedHttpMethodAny(method) ==
    method # ""

isAllowedHttpMethod(method) ==
    method # "" /\ method \notin forbiddenRequestMethods

\* open() without its call of abort(): what C5 guards against
openWithoutAbort(m, method, url, async, user) ==
    LET m1 == [m EXCEPT !.errorFlag = FALSE, !.given = NoHeaders]
    IN  IF ~isAllowedHttpMethod(method)
        THEN Returned(m1, "open", "", "SecurityError")
        ELSE Returned(
                setState([m1 EXCEPT !.settings =
                            [set |-> TRUE, method |-> method, url |-> url,
                             async |-> async, user |-> user]], OPENED),
                "open", "", "ok")

open(m, method, url, async, user) ==
    LET m1 == [abort(m) EXCEPT !.errorFlag = FALSE, !.given = NoHeaders]
    IN  IF ~isAllowedHttpMethod(method)
        THEN Returned(m1, "open", "", "SecurityError")
        ELSE Returned(
                setState([m1 EXCEPT !.settings =
                            [set |-> TRUE, method |-> method, url |-> url,
                             async |-> async, user |-> user]], OPENED),
                "open", "", "ok")

Open(in) ==
    \E method \in in.methods, url \in in.urls, async \in in.asyncs, user \in in.users :
        LET m == open(Self, method, url, async, user)
        IN  /\ m.lastCall.op = "open"
            /\ Commit(m)

SetDisableHeaderCheck ==
    \E state \in BOOLEAN :
        LET m == Returned([Self EXCEPT !.disableHeaderCheck = state],
                          "setDisableHeaderCheck", "", "ok")
        IN  /\ state # disableHeaderCheck
            /\ Commit(m)

\* xhr.timeout = t, a plain assignment.  send() alone reads the attribute, so
\* the callers assign it where a send() could follow
SetTimeout(in) ==
    \E t \in in.timeouts :
        /\ t # timeout
        /\ readyState = OPENED /\ ~sendFlag
        /\ timeout' = t
        /\ UNCHANGED <<readyState, status, responseText, errorFlag, sendFlag, settings,
                       headers, heap, headersLowerCase, request, response,
                       disableHeaderCheck, ops, outHeaders, events, lastCall, given,
                       listeners, onSlot, calls>>

Abort ==
    LET m == Returned(abort(Self), "abort", "", "ok")
    IN  /\ m.lastCall.op = "abort"
        /\ Commit(m)

-----------------------------------------------------------------------------
(* setRequestHeader, getRequestHeader *)

\* the header check without the lower-casing: what C8 guards against
isAllowedHttpHeaderExactCase(m, header) ==
    m.disableHeaderCheck
        \/ (header # "" /\ header \notin forbiddenRequestHeaders)

isAllowedHttpHeader(m, header) ==
    m.disableHeaderCheck
        \/ (header # "" /\ toLowerCase(header) \notin forbiddenRequestHeaders)

\* the accepted call, noted per lower-cased name: the casing of the first call
\* since open(), and the values given since, in call order
NoteGiven(m, header, value) ==
    LET l == toLowerCase(header)
    IN  [m EXCEPT !.given =
            IF l \in DOMAIN @
            THEN [@ EXCEPT ![l].vals = Append(@, value)]
            ELSE (l :> [first |-> header, vals |-> <<value>>]) @@ @]

setRequestHeader(m, header, value) ==
    IF m.readyState # OPENED
    THEN Returned(m, "setRequestHeader", header, "InvalidState")
    ELSE IF ~isAllowedHttpHeader(m, header)
    THEN Returned(m, "setRequestHeader", header, "refused")
    ELSE IF m.sendFlag
    THEN Returned(m, "setRequestHeader", header, "InvalidState")
    ELSE LET l == toLowerCase(header)
             name == IF l \in DOMAIN m.headersLowerCase THEN m.headersLowerCase[l]
                     ELSE header
             m1 == [m EXCEPT !.headersLowerCase = (toLowerCase(name) :> name) @@ @]
             old == Headers(m1)
             m2 == PutHeader(m1, name,
                             IF name \in DOMAIN old /\ Truthy(old[name])
                             THEN Append(old[name], value)
                             ELSE <<value>>)
         IN  Returned(NoteGiven(m2, header, value), "setRequestHeader", header, "ok")

\* <<>> stands for undefined: no header value is the empty sequence
getRequestHeader(m, name) ==
    LET l == toLowerCase(name)
    IN  IF l \in DOMAIN m.headersLowerCase /\ m.headersLowerCase[l] \in DOMAIN Headers(m)
        THEN Headers(m)[m.headersLowerCase[l]]
        ELSE <<>>

\* the pieces the callers have put into the header object so far
GivenPieces(in) ==
    {<<n, k>> \in (DOMAIN heap[headers]) \X (1..(in.maxVals + 1)) :
        k \in DOMAIN heap[headers][n] /\ heap[headers][n][k] \in in.values}


SetRequestHeader(in) ==
    \E header \in in.names, value \in in.values :
        /\ Cardinality(GivenPieces(in)) < in.maxVals
        /\ Commit(setRequestHeader(Self, header, value))

-----------------------------------------------------------------------------
(* send *)

\* a send the object has accepted: what it started (kind), where the transport,
\* the reader and the timer stand with it, and, for the claims, how it ended
\* (term), the loadend events dispatched while it was the current send, and
\* whether abort() or open() has been called since (live)
NewOp(kind, phase, timer) ==
    [kind |-> kind, phase |-> phase, redirectCount |-> 0, cancelled |-> FALSE,
     errored |-> FALSE, chunks |-> 0, timer |-> timer,
     term |-> "none", loadends |-> 0, live |-> TRUE]

\* an earlier send, once a new one is accepted: what the claims noted of it is
\* dropped, and so is the transport's side of it once nothing of it can be delivered
Retired(op) ==
    IF op.phase \in {"closed", "thrown"} /\ op.timer # "armed"
    THEN [NewOp(op.kind, "closed", "none") EXCEPT !.term = "past", !.live = FALSE]
    ELSE [op EXCEPT !.term = "past", !.loadends = 0, !.live = FALSE]

\* the accepted sends, with a new one
Accept(m, op) ==
    [m EXCEPT !.ops = Append([i \in DOMAIN @ |-> Retired(@[i])], op)]

\* a step of the transport, the reader or the child process, noted among the events
Did(m, what) ==
    [m EXCEPT !.events = Append(@, [ev |-> what, rs |-> m.readyState, st |-> m.status])]

\* lines 466-509: the headers send() writes into this.headers
SynthesizeHeaders(m, data) ==
    LET proto == Protocol(m.settings.url)
        host == IF proto \in {"http:", "https:"} THEN Hostname(m.settings.url)
                ELSE "localhost"
        def == m.heap["def"]
        missing == {n \in DOMAIN def : toLowerCase(n) \notin DOMAIN m.headersLowerCase}
        m1 == [m EXCEPT !.heap[m.headers] =
                  [n \in DOMAIN @ \cup missing |-> IF n \in missing THEN def[n] ELSE @[n]]]
        m2 == IF host # "" THEN PutHeader(m1, "Host", <<host>>) ELSE m1
        m3 == IF m2.settings.user # "" THEN PutHeader(m2, "Authorization", <<"Basic">>)
              ELSE m2
    IN  IF m3.settings.method \in {"GET", "HEAD"} THEN m3
        ELSE IF data # ""
        THEN LET m4 == PutHeader(m3, "Content-Length", <<"len">>)
             IN  IF getRequestHeader(m4, "Content-Type") \in {<<>>, <<"">>}
                 THEN PutHeader(m4, "Content-Type", <<"text/plain;charset=UTF-8">>)
                 ELSE m4
        ELSE IF m3.settings.method = "POST"
        THEN PutHeader(m3, "Content-Length", <<"0">>)
        ELSE m3

\* lines 431-457: a file: target
sendLocal(m, outcome) ==
    IF m.settings.method # "GET"
    THEN Returned(m, "send", "", "MethodNotSupported")
    ELSE IF m.settings.async
    THEN Returned(Did(Accept(m, NewOp("file", "reading", "none")), "readFile"),
                  "send", "", "accepted")
    ELSE LET m1 == Did(Accept(m, NewOp("file", "closed", "none")), "readFileSync")
         IN  Returned(
                IF outcome = "ok"
                THEN Ended(setState([m1 EXCEPT !.responseText = <<"file">>,
                                               !.status = 200], DONE), "done")
                ELSE handleError(m1),
                "send", "", "accepted")

\* lines 525-640: an asynchronous http(s) request
sendAsync(m) ==
    LET m1 == [Accept(m, NewOp("http", "sent", IF m.timeout >= 1 THEN "armed" ELSE "none"))
                  EXCEPT !.sendFlag = TRUE]
        m2 == dispatchEvent(m1, "readystatechange")
        m3 == Did([m2 EXCEPT !.request = Current(m2), !.outHeaders = Headers(m2)],
                  "doRequest")
    IN  Returned(dispatchEvent(m3, "loadstart"), "send", "", "accepted")

\* lines 641-722: a synchronous http(s) request
sendSync(m, outcome, resp) ==
    LET m1 == [Accept(m, NewOp("sync", "closed", "none")) EXCEPT
                  !.outHeaders = Headers(m)]
        m2 == Did(setState(dispatchEvent(m1, "loadstart"), LOADING), "spawn")
    IN  Returned(
            IF outcome = "timeout" /\ m2.timeout # 0 THEN handleTimeout(m2)
            ELSE IF outcome = "error" THEN handleError(m2)
            ELSE Ended(setState([m2 EXCEPT !.response = resp,
                                           !.status = resp.statusCode,
                                           !.responseText = <<"text">>], DONE), "done"),
            "send", "", "accepted")

send(m, data, outcome, resp) ==
    IF ~m.settings.set THEN Returned(m, "send", "", "InvalidState")
    ELSE IF m.readyState # OPENED THEN Returned(m, "send", "", "InvalidState")
    ELSE IF m.sendFlag THEN Returned(m, "send", "", "InvalidState")
    ELSE IF Protocol(m.settings.url) \notin {"https:", "http:", "file:", ""}
    THEN Returned(m, "send", "", "ProtocolNotSupported")
    ELSE IF Protocol(m.settings.url) = "file:" THEN sendLocal(m, outcome)
    ELSE LET m1 == [SynthesizeHeaders(m, data) EXCEPT !.errorFlag = FALSE]
         IN  IF m1.settings.async THEN sendAsync(m1) ELSE sendSync(m1, outcome, resp)

Send(in) ==
    \E data \in in.bodies, outcome \in {"ok", "error", "timeout"}, resp \in Responses :
        LET m == send(Self, data, outcome, resp)
        IN  /\ Len(m.ops) <= in.maxSends
            /\ Commit(m)

-----------------------------------------------------------------------------
(* What the transport, the file reader and the timers deliver.  request.abort()
   destroys the connection: a response whose headers have not been delivered
   never arrives, while the chunks the response stream has buffered, its end
   and the connection's error can still be delivered. *)

IsRedirect(resp) ==
    resp.location # "" /\ resp.statusCode \in {301, 302, 303, 307}

\* lines 552-628: responseHandler of send number i
responseHandler(m, i, resp) ==
    LET m1 == [m EXCEPT !.response = resp]
    IN  IF IsRedirect(resp)
        THEN LET m2 == [m1 EXCEPT !.ops[i].redirectCount = @ + 1]
             IN  IF m2.ops[i].redirectCount >= RedirectLimit
                 THEN Returned(Ended([m2 EXCEPT !.ops[i].phase = "thrown"], "redirectLoop"),
                               "response", "", "TooManyRedirects")
                 ELSE Returned(
                        Did([m2 EXCEPT !.settings.url = resp.location, !.request = i,
                                       !.outHeaders = Headers(m2)], "doRequest"),
                        "response", "", "redirect")
        ELSE LET m2 == setState(m1, HEADERS_RECEIVED)
             IN  Returned([m2 EXCEPT !.status = resp.statusCode,
                                     !.ops[i].phase = "streaming"],
                          "response", "", "ok")

Response(in) ==
    \E i \in DOMAIN ops, resp \in Responses :
        /\ ops[i].kind = "http" /\ ops[i].phase = "sent" /\ ~ops[i].cancelled
        /\ IsRedirect(resp) => ops[i].redirectCount < in.maxRedirects
        /\ Commit(responseHandler(Self, i, resp))

\* lines 606-615
onData(m, i) ==
    LET m1 == [m EXCEPT !.responseText = Append(@, "chunk"), !.ops[i].chunks = @ + 1]
    IN  Returned(IF m1.sendFlag THEN setState(m1, LOADING) ELSE m1, "data", "", "ok")

Data ==
    \E i \in DOMAIN ops :
        /\ ops[i].kind = "http" /\ ops[i].phase = "streaming"
        /\ ops[i].chunks < MaxChunks
        /\ Commit(onData(Self, i))

\* lines 617-623
onEnd(m, i) ==
    LET m1 == [m EXCEPT !.ops[i].phase = "closed"]
    IN  Returned(IF m1.sendFlag
                 THEN Ended([setState(m1, DONE) EXCEPT !.sendFlag = FALSE], "done")
                 ELSE m1,
                 "end", "", "ok")

End ==
    \E i \in DOMAIN ops :
        /\ ops[i].kind = "http" /\ ops[i].phase = "streaming"
        /\ Commit(onEnd(Self, i))

\* lines 625-627: the response's 'error'
onResponseError(m, i) ==
    Returned(handleError([m EXCEPT !.ops[i].errored = TRUE]), "responseError", "", "ok")

ResponseError ==
    \E i \in DOMAIN ops :
        /\ ops[i].kind = "http" /\ ops[i].phase = "streaming" /\ ~ops[i].errored
        /\ Commit(onResponseError(Self, i))

\* lines 545-547: the request's 'error'
errorHandler(m, i) ==
    Returned(handleError([m EXCEPT !.ops[i].errored = TRUE,
                                   !.ops[i].phase = IF @ = "sent" THEN "closed" ELSE @]),
             "requestError", "", "ok")

RequestError ==
    \E i \in DOMAIN ops :
        /\ ops[i].kind = "http" /\ ops[i].phase \in {"sent", "streaming"}
        /\ ~ops[i].errored
        /\ Commit(errorHandler(Self, i))

\* lines 528-532: the timer send number i armed
onTimer(m, i) ==
    LET m1 == [m EXCEPT !.ops[i].timer = "none"]
    IN  Returned(IF m1.readyState # DONE THEN handleTimeout(m1) ELSE m1, "timer", "", "ok")

TimerFires ==
    \E i \in DOMAIN ops :
        /\ ops[i].timer = "armed"
        /\ Commit(onTimer(Self, i))

\* lines 437-445: the callback of fs.readFile
onReadFile(m, i, outcome) ==
    LET m1 == [m EXCEPT !.ops[i].phase = "closed"]
    IN  Returned(
            IF outcome = "error" THEN handleError(m1)
            ELSE Ended(setState([m1 EXCEPT !.status = 200, !.responseText = <<"file">>],
                                DONE), "done"),
            "readFile", "", "ok")

FileRead ==
    \E i \in DOMAIN ops, outcome \in {"ok", "error"} :
        /\ ops[i].kind = "file" /\ ops[i].phase = "reading"
        /\ Commit(onReadFile(Self, i, outcome))

-----------------------------------------------------------------------------
(* addEventListener, removeEventListener, and dispatchEvent with the callbacks
   bound.  The lifecycle operators above dispatch with no callback bound for
   the event; the operators here run the callbacks too. *)

addEventListener(m, event, callback) ==
    [m EXCEPT !.listeners =
        IF event \in DOMAIN @ THEN [@ EXCEPT ![event] = Append(@, callback)]
        ELSE (event :> <<callback>>) @@ @]

removeEventListener(m, event, callback) ==
    IF event \in DOMAIN m.listeners
    THEN [m EXCEPT !.listeners[event] = SelectSeq(@, LAMBDA ev : ev # callback)]
    ELSE m

\* one callback invoked: it is noted, and does what its name says
Invoke(m, callback, event) ==
    LET m1 == [m EXCEPT !.calls = Append(@, callback)]
    IN  CASE callback = "addG" -> addEventListener(m1, event, "g")
          [] callback = "removeF" -> removeEventListener(m1, event, "f")
          [] callback = "throws" -> [m1 EXCEPT !.threw = TRUE]
          [] OTHER -> m1

\* lines 788-792: the loop over this.listeners[event], which is read again
\* in every round while len was read once; calling a missing element throws
RECURSIVE ListenerLoop(_, _, _, _)
ListenerLoop(m, event, i, len) ==
    IF i >= len \/ m.threw THEN m
    ELSE IF i + 1 > Len(m.listeners[event]) THEN [m EXCEPT !.threw = TRUE]
    ELSE ListenerLoop(Invoke(m, m.listeners[event][i + 1], event), event, i + 1, len)

\* lines 782-793, with the callbacks
dispatchEventToHandlers(m, event) ==
    LET m1 == dispatchEvent(m, event)
        m2 == IF event \in DOMAIN m1.onSlot THEN Invoke(m1, m1.onSlot[event], event)
              ELSE m1
    IN  IF m2.threw \/ event \notin DOMAIN m2.listeners THEN m2
        ELSE ListenerLoop(m2, event, 0, Len(m2.listeners[event]))

\* lines 800-816, with the callbacks: an exception leaves setState at once
setStateWithHandlers(m, state) ==
    IF state = LOADING \/ m.readyState # state
    THEN LET m1 == [m EXCEPT !.readyState = state]
             m2 == IF (m1.settings.set /\ m1.settings.async)
                      \/ m1.readyState < OPENED \/ m1.readyState = DONE
                   THEN dispatchEventToHandlers(m1, "readystatechange")
                   ELSE m1
         IN  IF m2.threw \/ m2.readyState # DONE THEN m2
             ELSE LET m3 == IF ~m2.errorFlag THEN dispatchEventToHandlers(m2, "load")
                            ELSE m2
                  IN  IF m3.threw THEN m3 ELSE dispatchEventToHandlers(m3, "loadend")
    ELSE m

\* how an operation that ran callbacks returns
Outcome(m) == IF m.threw THEN "threw" ELSE "ok"

\* the callbacks have not added more listeners than the callers may
Within(m, in) ==
    \A event \in DOMAIN m.listeners : Len(m.listeners[event]) <= in.maxListeners

AddEventListener(in) ==
    \E event \in in.events, callback \in in.callbacks :
        /\ (IF event \in DOMAIN listeners THEN Len(listeners[event]) ELSE 0)
              < in.maxListeners
        /\ Commit(Returned(addEventListener(Self, event, callback),
                           "addEventListener", "", "ok"))

RemoveEventListener(in) ==
    \E event \in in.events, callback \in in.callbacks :
        /\ event \in DOMAIN listeners
        /\ \E k \in DOMAIN listeners[event] : listeners[event][k] = callback
        /\ Commit(Returned(removeEventListener(Self, event, callback),
                           "removeEventListener", "", "ok"))

\* xhr.on<event> = callback, a plain assignment
SetOnHandler(in) ==
    \E event \in in.events, callback \in in.callbacks :
        /\ (IF event \in DOMAIN onSlot THEN onSlot[event] ELSE "") # callback
        /\ Commit(Returned([Self EXCEPT !.onSlot = (event :> callback) @@ @],
                           "on", "", "ok"))

\* the public dispatchEvent, called by the user of the object
DispatchEvent(in) ==
    \E event \in in.events :
        LET m == dispatchEventToHandlers(Self, event)
        IN  /\ Within(m, in)
            /\ Commit(Returned(m, "dispatchEvent", event, Outcome(m)))

\* lines 617-623, with the callbacks: after an exception in setState the send
\* flag is not cleared
onEndWithHandlers(m, i) ==
    LET m1 == [m EXCEPT !.ops[i].phase = "closed"]
    IN  IF ~m1.sendFlag THEN Returned(m1, "end", "", "ok")
        ELSE LET m2 == setStateWithHandlers(m1, DONE)
             IN  Returned(Ended(IF m2.threw THEN m2 ELSE [m2 EXCEPT !.sendFlag = FALSE],
                                "done"),
                          "end", "", Outcome(m2))

EndWithHandlers(in) ==
    \E i \in DOMAIN ops :
        /\ ops[i].kind = "http" /\ ops[i].phase = "streaming"
        /\ Within(onEndWithHandlers(Self, i), in)
        /\ Commit(onEndWithHandlers(Self, i))

-----------------------------------------------------------------------------

Init ==
    /\ readyState = UNSENT
    /\ status = 0
    /\ responseText = <<>>
    /\ errorFlag = FALSE
    /\ sendFlag = FALSE
    /\ settings = NoSettings
    /\ headers = "own"
    /\ heap = [o \in {"own", "def"} |-> IF o = "def" THEN InitDefaultHeaders ELSE NoHeaders]
    /\ headersLowerCase = NoHeaders
    /\ request = 0
    /\ response = NoResponse
    /\ disableHeaderCheck = FALSE
    /\ timeout = 0
    /\ ops = <<>>
    /\ outHeaders = NoHeaders
    /\ events = <<>>
    /\ lastCall = NoCall
    /\ given = NoHeaders
    /\ listeners = NoListeners
    /\ onSlot = NoListeners
    /\ calls = <<>>

Next ==
    \/ Abort
    \/ Open(LifeInputs)
    \/ SetTimeout(LifeInputs)
    \/ SetRequestHeader(LifeInputs)
    \/ Send(LifeInputs)
    \/ Response(LifeInputs)
    \/ Data
    \/ End
    \/ ResponseError
    \/ RequestError
    \/ TimerFires
    \/ FileRead

Spec == Init /\ [][Next]_vars

\* the header table: callers that vary header names, values, credentials and
\* bodies, over asynchronous http requests
NextHeaders ==
    \/ Abort
    \/ Open(HeaderInputs)
    \/ SetDisableHeaderCheck
    \/ SetRequestHeader(HeaderInputs)
    \/ Send(HeaderInputs)
    \/ Response(HeaderInputs)
    \/ End
    \/ RequestError

SpecHeaders == Init /\ [][NextHeaders]_vars

\* redirect chains: one kind of asynchronous request, and responses that
\* redirect it again and again
NextRedirects ==
    \/ Abort
    \/ Open(RedirectInputs)
    \/ Send(RedirectInputs)
    \/ Response(RedirectInputs)
    \/ Data
    \/ End

SpecRedirects == Init /\ [][NextRedirects]_vars

\* event dispatch: callbacks bound for load, the public dispatchEvent, and
\* one asynchronous GET whose end dispatches load
NextDispatch ==
    \/ AddEventListener(DispatchInputs)
    \/ RemoveEventListener(DispatchInputs)
    \/ SetOnHandler(DispatchInputs)
    \/ DispatchEvent(DispatchInputs)
    \/ Open(DispatchInputs)
    \/ Send(DispatchInputs)
    \/ Response(DispatchInputs)
    \/ EndWithHandlers(DispatchInputs)

SpecDispatch == Init /\ [][NextDispatch]_vars

-----------------------------------------------------------------------------
(* A readystatechange handler that calls abort().  The operators here are the
   asynchronous http path with the handler bound to onreadystatechange run
   inside every dispatch: abort() is entered again from within setState, and
   the caller of setState goes on with what the handler has left. *)

\* the handlers the callers bind to onreadystatechange, by what they do when
\* invoked: nothing (f), this.abort() (aborts), or this.abort() when
\* readyState is HEADERS_RECEIVED (abortsOnHeaders)
AbortingCallbacks == {"f", "aborts", "abortsOnHeaders"}

\* what the callers of the re-entrant specification pass
ReentrantInputs ==
    [methods |-> {"GET"}, urls |-> {"http://a/"},
     asyncs |-> {TRUE}, users |-> {""}, bodies |-> {""},
     names |-> {"X-Foo"}, values |-> {"a"},
     timeouts |-> {0}, maxVals |-> MaxJoined, maxSends |-> MaxSends,
     maxRedirects |-> MaxRedirects,
     events |-> {"readystatechange"}, callbacks |-> AbortingCallbacks,
     maxListeners |-> MaxListeners]

RECURSIVE dispatchEventReentrant(_, _)
RECURSIVE setStateReentrant(_, _)
RECURSIVE abortReentrant(_)

\* lines 782-786: the on<event> member is called when it is bound
dispatchEventReentrant(m, event) ==
    LET m1 == dispatchEvent(m, event)
    IN  IF event \notin DOMAIN m1.onSlot THEN m1
        ELSE LET callback == m1.onSlot[event]
                 m2 == [m1 EXCEPT !.calls = Append(@, callback)]
             IN  IF callback = "aborts"
                    \/ (callback = "abortsOnHeaders" /\ m2.readyState = HEADERS_RECEIVED)
                 THEN abortReentrant(m2)
                 ELSE m2

\* lines 800-816: readyState is read again after the handlers have run
setStateReentrant(m, state) ==
    IF state = LOADING \/ m.readyState # state
    THEN LET m1 == [m EXCEPT !.readyState = state]
             m2 == IF (m1.settings.set /\ m1.settings.async)
                      \/ m1.readyState < OPENED \/ m1.readyState = DONE
                   THEN dispatchEventReentrant(m1, "readystatechange")
                   ELSE m1
         IN  IF m2.readyState = DONE
             THEN dispatchEventReentrant(
                    IF ~m2.errorFlag THEN dispatchEventReentrant(m2, "load") ELSE m2,
                    "loadend")
             ELSE m2
    ELSE m

\* lines 728-753
abortReentrant(m) ==
    LET m1 == CancelRequest(m)
        m2 == [m1 EXCEPT !.headers = "def", !.status = 0, !.responseText = <<>>,
                         !.errorFlag = TRUE]
        m3 == IF m2.readyState # UNSENT
                 /\ (m2.readyState # OPENED \/ m2.sendFlag)
                 /\ m2.readyState # DONE
              THEN setStateReentrant([m2 EXCEPT !.sendFlag = FALSE], DONE)
              ELSE m2
        m4 == [m3 EXCEPT !.readyState = UNSENT]
        m5 == dispatchEventReentrant(m4, "abort")
    IN  [Ended(m5, "abort") EXCEPT
            !.ops = [i \in DOMAIN @ |-> [@[i] EXCEPT !.live = FALSE]]]

\* lines 251-270
openReentrant(m, method, url, async, user) ==
    LET m1 == [abortReentrant(m) EXCEPT !.errorFlag = FALSE, !.given = NoHeaders]
    IN  IF ~isAllowedHttpMethod(method)
        THEN Returned(m1, "open", "", "SecurityError")
        ELSE Returned(
                setStateReentrant([m1 EXCEPT !.settings =
                                     [set |-> TRUE, method |-> method, url |-> url,
                                      async |-> async, user |-> user]], OPENED),
                "open", "", "ok")

\* lines 388-640, for an asynchronous http(s) target: the request is created
\* and loadstart dispatched whatever the handler of line 542 has done
sendReentrant(m, data) ==
    IF send(m, data, "ok", NoResponse).lastCall.res \in Rejections
    THEN send(m, data, "ok", NoResponse)
    ELSE LET m1 == [SynthesizeHeaders(m, data) EXCEPT !.errorFlag = FALSE]
             m2 == [Accept(m1, NewOp("http", "sent", "none")) EXCEPT !.sendFlag = TRUE]
             m3 == dispatchEventReentrant(m2, "readystatechange")
             m4 == Did([m3 EXCEPT !.request = Current(m3), !.outHeaders = Headers(m3)],
                       "doRequest")
         IN  Returned(dispatchEventReentrant(m4, "loadstart"), "send", "", "accepted")

\* lines 552-628: status is assigned after setState has returned
responseHandlerReentrant(m, i, resp) ==
    IF IsRedirect(resp) THEN responseHandler(m, i, resp)
    ELSE LET m1 == [m EXCEPT !.response = resp]
             m2 == setStateReentrant(m1, HEADERS_RECEIVED)
         IN  Returned([m2 EXCEPT !.status = resp.statusCode,
                                 !.ops[i].phase = "streaming"],
                      "response", "", "ok")

\* lines 606-615
onDataReentrant(m, i) ==
    LET m1 == [m EXCEPT !.responseText = Append(@, "chunk"), !.ops[i].chunks = @ + 1]
    IN  Returned(IF m1.sendFlag THEN setStateReentrant(m1, LOADING) ELSE m1,
                 "data", "", "ok")

\* lines 617-623
onEndReentrant(m, i) ==
    LET m1 == [m EXCEPT !.ops[i].phase = "closed"]
    IN  Returned(IF m1.sendFlag
                 THEN Ended([setStateReentrant(m1, DONE) EXCEPT !.sendFlag = FALSE], "done")
                 ELSE m1,
                 "end", "", "ok")

OpenReentrant(in) ==
    \E method \in in.methods, url \in in.urls, async \in in.asyncs, user \in in.users :
        LET m == openReentrant(Self, method, url, async, user)
        IN  /\ m.lastCall.op = "open"
            /\ Commit(m)

SendReentrant(in) ==
    \E data \in in.bodies :
        LET m == sendReentrant(Self, data)
        IN  /\ Len(m.ops) <= in.maxSends
            /\ Commit(m)

ResponseReentrant(in) ==
    \E i \in DOMAIN ops, resp \in Responses :
        /\ ops[i].kind = "http" /\ ops[i].phase = "sent" /\ ~ops[i].cancelled
        /\ IsRedirect(resp) => ops[i].redirectCount < in.maxRedirects
        /\ Commit(responseHandlerReentrant(Self, i, resp))

DataReentrant ==
    \E i \in DOMAIN ops :
        /\ ops[i].kind = "http" /\ ops[i].phase = "streaming"
        /\ ops[i].chunks < MaxChunks
        /\ Commit(onDataReentrant(Self, i))

EndReentrant ==
    \E i \in DOMAIN ops :
        /\ ops[i].kind = "http" /\ ops[i].phase = "streaming"
        /\ Commit(onEndReentrant(Self, i))

AbortReentrant ==
    LET m == Returned(abortReentrant(Self), "abort", "", "ok")
    IN  /\ m.lastCall.op = "abort"
        /\ Commit(m)

\* re-entrant abort: a handler bound to onreadystatechange, and asynchronous
\* GETs whose dispatches run it
NextReentrant ==
    \/ SetOnHandler(ReentrantInputs)
    \/ OpenReentrant(ReentrantInputs)
    \/ SendReentrant(ReentrantInputs)
    \/ ResponseReentrant(ReentrantInputs)
    \/ DataReentrant
    \/ EndReentrant
    \/ AbortReentrant

SpecReentrant == Init /\ [][NextReentrant]_vars

-----------------------------------------------------------------------------
(* The claims *)

\* the send the object is working on, when one has been accepted
HasSend == ops # NoOps
CurrentOp == ops[Len(ops)]

\* an accepted send that has neither finished in DONE nor been aborted
InFlight == HasSend /\ CurrentOp.term = "none"

\* nothing of the current send is left for the transport, the reader or its
\* timer to deliver
Settled == CurrentOp.phase \in {"closed", "thrown"} /\ CurrentOp.timer = "none"

Deliveries ==
    {"response", "data", "end", "responseError", "requestError", "timer", "readFile"}

\* C1: every accepted send dispatches loadend exactly once, however it ends:
\* never twice, and once when the send has ended and nothing of it is pending.
C1_LoadendOncePerSend ==
    HasSend =>
        /\ CurrentOp.loadends <= 1
        /\ (CurrentOp.term # "none" /\ Settled) => CurrentOp.loadends = 1

\* C2: between an accepted send and the next abort() or open(), no delivery of
\* the transport and no timer lowers readyState.
C2_ReadyStateMonotonic ==
    [][(HasSend /\ CurrentOp.live /\ lastCall'.op \in Deliveries /\ Len(ops') = Len(ops))
            => readyState' >= readyState]_vars

\* C3: send() fails with InvalidState whenever readyState is not OPENED, no
\* settings are stored, or an earlier send is still in flight.
C3_SendRejected ==
    \A data \in LifeInputs.bodies, outcome \in {"ok", "error", "timeout"}, resp \in Responses :
        (readyState # OPENED \/ ~settings.set \/ InFlight)
            => send(Self, data, outcome, resp).lastCall.res = "InvalidState"

\* event a is dispatched, and before any readystatechange for OPENED
Precedes(log, a) ==
    \E i \in DOMAIN log :
        /\ log[i].ev = a
        /\ \A j \in DOMAIN log :
              (log[j].ev = "readystatechange" /\ log[j].rs = OPENED) => i < j

\* the headers a send synthesizes itself (lines 473-509), for a body-less request
Synthesized(s) ==
    {"Host"} \cup (IF s.user # "" THEN {"Authorization"} ELSE {})
             \cup (IF s.method = "POST" THEN {"Content-Length"} ELSE {})

\* C4: the header set a send hands to the transport holds only default
\* headers, headers set since the last open(), and headers the send synthesized.
C4_OpenResetsHeaders ==
    (lastCall.op = "send" /\ lastCall.res = "accepted") =>
        \A n \in DOMAIN outHeaders :
            \/ n \in DOMAIN InitDefaultHeaders /\ outHeaders[n] = InitDefaultHeaders[n]
            \/ n \in Synthesized(settings)
            \/ /\ toLowerCase(n) \in DOMAIN given
               /\ \A k \in DOMAIN outHeaders[n] :
                     \/ \E j \in DOMAIN given[toLowerCase(n)].vals :
                           given[toLowerCase(n)].vals[j] = outHeaders[n][k]
                     \/ /\ n \in DOMAIN InitDefaultHeaders
                        /\ outHeaders[n][k] = InitDefaultHeaders[n][1]

\* a send whose transport operation the object holds when open() is called
RequestInFlight == InFlight /\ CurrentOp.kind = "http" /\ request = Len(ops)

\* C5: open() called with a send in flight aborts it: the transport operation
\* the object holds is cancelled and released, and the abort event is
\* dispatched before the object reaches OPENED again.
C5_OpenAbortsFirst ==
    [][(InFlight /\ lastCall'.op = "open")
            => /\ ops'[Len(ops)].term = "abort"
               /\ request' = 0
               /\ Precedes(events', "abort")
               /\ lastCall'.res = "ok" => readyState' = OPENED
               /\ RequestInFlight =>
                     /\ ops'[Len(ops)].cancelled
                     /\ Precedes(events', "request.abort")]_vars

\* C5 witness: an open() that found a request in flight, cancelled it,
\* dispatched abort and then reached OPENED
C5_Witness ==
    /\ lastCall = [op |-> "open", arg |-> "", res |-> "ok"]
    /\ readyState = OPENED
    /\ HasSend /\ CurrentOp.cancelled /\ CurrentOp.term = "abort"
    /\ \E i, j, k \in DOMAIN events :
          /\ i < j /\ j < k
          /\ events[i].ev = "request.abort"
          /\ events[j].ev = "abort"
          /\ events[k].ev = "readystatechange" /\ events[k].rs = OPENED

\* C6: abort() returns with readyState UNSENT, status 0, an empty
\* responseText, the error flag set, the send flag clear and no handle held.
C6_AbortResets ==
    lastCall.op = "abort" =>
        /\ readyState = UNSENT /\ status = 0 /\ responseText = <<>>
        /\ errorFlag /\ ~sendFlag /\ request = 0

\* a send in flight as a caller sees it: OPENED after send, HEADERS_RECEIVED
\* or LOADING
SendInFlight ==
    \/ readyState \in {HEADERS_RECEIVED, LOADING}
    \/ readyState = OPENED /\ HasSend /\ CurrentOp.live

\* C7: abort() dispatches readystatechange for DONE, then loadend, and never
\* load, exactly when a send is in flight; otherwise only abort; abort is
\* always the last event.
C7_AbortEvents ==
    [][lastCall'.op = "abort" =>
            LET d == SelectSeq(events', LAMBDA e : e.ev \notin {"request.abort"})
            IN  IF SendInFlight
                THEN d = <<[ev |-> "readystatechange", rs |-> DONE, st |-> 0],
                           [ev |-> "loadend", rs |-> DONE, st |-> 0],
                           [ev |-> "abort", rs |-> UNSENT, st |-> 0]>>
                ELSE d = <<[ev |-> "abort", rs |-> UNSENT, st |-> 0]>>]_vars

\* the forbidden names among those the callers pass, in any letter case
ForbiddenNames(in) == {n \in in.names : toLowerCase(n) \in forbiddenRequestHeaders}

C9_SetRequestHeaderRejected ==
    \A header \in LifeInputs.names \cup {"X-Foo"}, value \in LifeInputs.values :
        (readyState # OPENED \/ (HasSend /\ CurrentOp.live)) =>
            LET m == setRequestHeader(Self, header, value)
            IN  /\ m.lastCall.res = "InvalidState"
                /\ m.heap = heap /\ m.headersLowerCase = headersLowerCase

\* C10: the calls for one name, in any letter case, make one header: its
\* name is the casing of the first call, its value the given values in call
\* order, and getRequestHeader returns that value for any casing.
C10_HeadersAccumulate ==
    (lastCall.op = "setRequestHeader" /\ lastCall.res = "ok") =>
        \A l \in DOMAIN given :
            /\ l \in DOMAIN headersLowerCase /\ headersLowerCase[l] = given[l].first
            /\ \A n \in DOMAIN heap[headers] : toLowerCase(n) = l => n = given[l].first
            /\ \A c \in HeaderInputs.names :
                  toLowerCase(c) = l => getRequestHeader(Self, c) = given[l].vals

-----------------------------------------------------------------------------
(* getAllResponseHeaders *)

\* response.headers as node delivers it for the responses of the model: the
\* names lower-cased, in the order received; a value is a string, an array of
\* strings (set-cookie always is), or undefined
ResponseHeaders(resp) ==
    IF ~resp.set THEN <<>>
    ELSE (IF resp.location # ""
          THEN <<[name |-> "location", type |-> "string", value |-> <<resp.location>>]>>
          ELSE <<>>)
         \o <<[name |-> "set-cookie", type |-> "array", value |-> <<"a=1", "b=2">>],
              [name |-> "content-type", type |-> "string", value |-> <<"text/plain">>],
              [name |-> "set-cookie2", type |-> "string", value |-> <<"c=3">>],
              [name |-> "x-none", type |-> "undefined", value |-> <<>>]>>

\* a variant that lets the cookie headers through: what C11 guards against
getAllResponseHeadersWithCookies(m) ==
    IF m.readyState < HEADERS_RECEIVED \/ m.errorFlag
    THEN [null |-> TRUE, lines |-> <<>>]
    ELSE [null |-> FALSE,
          lines |-> [k \in DOMAIN ResponseHeaders(m.response) |->
                        LET h == ResponseHeaders(m.response)[k]
                        IN  [name |-> h.name,
                             value |-> IF h.type = "undefined" THEN <<>> ELSE h.value]]]

\* the result as its lines "name: value" (the pieces of an array joined by
\* ', '; "name:" alone is the empty value), which the code joins by CRLF
getAllResponseHeaders(m) ==
    IF m.readyState < HEADERS_RECEIVED \/ m.errorFlag
    THEN [null |-> TRUE, lines |-> <<>>]
    ELSE LET hs == SelectSeq(ResponseHeaders(m.response),
                             LAMBDA h : h.name # "set-cookie" /\ h.name # "set-cookie2")
         IN  [null |-> FALSE,
              lines |-> [k \in DOMAIN hs |->
                            [name |-> hs[k].name,
                             value |-> IF hs[k].type = "undefined" THEN <<>>
                                       ELSE hs[k].value]]]

\* C11: getAllResponseHeaders() returns null whenever readyState is below
\* HEADERS_RECEIVED or the error flag is set, and a result that is not null
\* has no set-cookie or set-cookie2 line.
C11_ResponseHeadersNullAndNoCookies ==
    LET r == getAllResponseHeaders(Self)
    IN  /\ (readyState < HEADERS_RECEIVED \/ errorFlag) => r.null
        /\ ~r.null => \A k \in DOMAIN r.lines :
                          r.lines[k].name \notin {"set-cookie", "set-cookie2"}

\* C11 witness: headers that include cookies have arrived and the result is
\* their other lines
C11_Witness ==
    /\ readyState >= HEADERS_RECEIVED /\ ~errorFlag
    /\ \E k \in DOMAIN ResponseHeaders(response) :
          ResponseHeaders(response)[k].name = "set-cookie"
    /\ ~getAllResponseHeaders(Self).null
    /\ Len(getAllResponseHeaders(Self).lines) = 2

-----------------------------------------------------------------------------
(* A successful asynchronous GET *)

\* the names of the events in a log, without the steps of the transport
Names(log) ==
    LET d == SelectSeq(log, LAMBDA e : e.ev \notin
                 {"request.abort", "doRequest", "readFile", "readFileSync", "spawn"})
    IN  [k \in DOMAIN d |-> d[k].ev]

\* the current send is an asynchronous GET whose 200 response is streaming,
\* with no abort() or open() since it was accepted, no error of its transport
\* and its timer, if it armed one, not fired
CleanGet ==
    /\ HasSend /\ CurrentOp.live /\ CurrentOp.kind = "http"
    /\ CurrentOp.phase = "streaming" /\ ~CurrentOp.errored
    /\ (CurrentOp.timer = "armed" \/ timeout = 0)
    /\ settings.method = "GET" /\ settings.async
    /\ response.set /\ response.statusCode = 200

\* C12: when the end of the 200 response of such a GET is delivered, the
\* object reaches DONE with status 200 and the error flag clear, dispatching
\* readystatechange, load and loadend and nothing else, and these are the
\* only load and loadend of the request.
C12_SuccessfulGet ==
    [][(CleanGet /\ lastCall'.op = "end" /\ ops'[Len(ops)].phase = "closed")
            => /\ readyState' = DONE /\ status' = 200 /\ ~errorFlag'
               /\ Names(events') = <<"readystatechange", "load", "loadend">>
               /\ ops'[Len(ops)].loadends = 1]_vars

-----------------------------------------------------------------------------
(* Timeout *)

\* the current send has ended by its timer, and neither abort() nor open() has
\* been called since
TimedOut == HasSend /\ CurrentOp.live /\ CurrentOp.kind = "http" /\ CurrentOp.term = "timeout"

\* C13: when the timer of the current asynchronous send fires before DONE,
\* timeout is dispatched once and error is not, status is 0, readyState is
\* DONE and the handle is released; afterwards no callback dispatches error
\* or timeout for that send, and abort() cancels nothing a second time.
C13_Timeout ==
    [][/\ (HasSend /\ CurrentOp.live /\ CurrentOp.timer = "armed" /\ readyState # DONE
             /\ lastCall'.op = "timer" /\ ops'[Len(ops)].timer = "none")
            => /\ Names(events') = <<"timeout", "readystatechange", "loadend">>
               /\ status' = 0 /\ readyState' = DONE /\ request' = 0
       /\ (TimedOut /\ lastCall'.op \in Deliveries /\ Len(ops') = Len(ops))
            => \A k \in DOMAIN events' : events'[k].ev \notin {"error", "timeout"}
       /\ (TimedOut /\ lastCall'.op = "abort")
            => \A k \in DOMAIN events' : events'[k].ev # "request.abort"
      ]_vars

-----------------------------------------------------------------------------
(* Redirect chains *)

\* C14: a redirect response for the current send is followed while it is one
\* of the first 10 of the chain; the 11th raises the redirect-loop error, and
\* readyState does not become DONE.
C14_RedirectChain ==
    [][(HasSend /\ CurrentOp.live /\ CurrentOp.phase = "sent" /\ lastCall'.op = "response"
            /\ ops'[Len(ops)].redirectCount = CurrentOp.redirectCount + 1)
         => IF CurrentOp.redirectCount < 10
            THEN /\ lastCall'.res = "redirect"
                 /\ ops'[Len(ops)].phase = "sent" /\ request' = Len(ops)
            ELSE /\ lastCall'.res = "TooManyRedirects"
                 /\ readyState' # DONE]_vars

-----------------------------------------------------------------------------
(* open *)

\* C15: in every state, open() with TRACE, TRACK or CONNECT fails with
\* SecurityError, leaves the object out of OPENED, stores no settings, and a
\* send() that follows is rejected.
C15_ForbiddenMethod ==
    \A method \in forbiddenRequestMethods, url \in LifeInputs.urls, async \in BOOLEAN :
        LET m == open(Self, method, url, async, "")
        IN  /\ m.lastCall.res = "SecurityError"
            /\ m.readyState # OPENED
            /\ m.settings = settings
            /\ send(m, "", "ok", NoResponse).lastCall.res = "InvalidState"

\* C15 witness: open('TRACE', ...) has just failed on an object that an
\* earlier open() had configured and that had a send in flight
C15_Witness ==
    /\ lastCall = [op |-> "open", arg |-> "", res |-> "SecurityError"]
    /\ settings.set /\ settings.method = "GET"
    /\ readyState = UNSENT
    /\ HasSend /\ CurrentOp.term = "abort"

\* C16: a successful open(), asynchronous or synchronous, dispatches
\* readystatechange exactly once with readyState = OPENED.
C16_OpenDispatchesReadyStateChange ==
    (lastCall.op = "open" /\ lastCall.res = "ok") =>
        Cardinality({k \in DOMAIN events :
                        events[k].ev = "readystatechange" /\ events[k].rs = OPENED}) = 1

-----------------------------------------------------------------------------
(* Event dispatch *)

\* the callbacks bound for an event: the on<event> member first, then the
\* listeners in the order they were added
Bound(event) ==
    (IF event \in DOMAIN onSlot THEN <<onSlot[event]>> ELSE <<>>)
        \o (IF event \in DOMAIN listeners THEN listeners[event] ELSE <<>>)

\* C17: a dispatch invokes exactly the callbacks bound when it started, the
\* on<event> member first and then the listeners in the order added, once per
\* registration, whatever the callbacks add or remove meanwhile.
C17_DispatchSnapshot ==
    [][\A event \in DispatchInputs.events :
          (lastCall'.op = "dispatchEvent" /\ lastCall'.arg = event
              /\ \A k \in DOMAIN Bound(event) : Bound(event)[k] # "throws")
            => /\ lastCall'.res = "ok"
               /\ calls' = Bound(event)]_vars

\* C18: when a callback throws during a dispatch, the other callbacks bound
\* for the event are still invoked and the later events of the transition
\* are still dispatched: the end of a response that dispatches load
\* dispatches loadend too.
C18_ThrowingHandlerIsolated ==
    [][/\ (lastCall'.op = "end" /\ "load" \in Range(Names(events')))
            => /\ "loadend" \in Range(Names(events'))
               /\ Len(calls') = Len(Bound("load"))
       /\ \A event \in DispatchInputs.events :
             (lastCall'.op = "dispatchEvent" /\ lastCall'.arg = event
                 /\ \A k \in DOMAIN Bound(event) : Bound(event)[k] \in {"f", "g", "throws"})
               => Len(calls') = Len(Bound(event))
      ]_vars

-----------------------------------------------------------------------------
(* loadstart, and the synchronous send *)

\* the steps by which send() hands the request to the transport, the file
\* reader or the child process
Handovers == {"doRequest", "readFile", "readFileSync", "spawn"}

\* C19: an accepted send() dispatches loadstart exactly once, and before it
\* hands the request to the transport or the file reader.
C19_LoadstartFirst ==
    (lastCall.op = "send" /\ lastCall.res = "accepted") =>
        /\ Cardinality({k \in DOMAIN events : events[k].ev = "loadstart"}) = 1
        /\ \A k, h \in DOMAIN events :
              (events[k].ev = "loadstart" /\ events[h].ev \in Handovers) => k < h

\* C20: a synchronous send() dispatches no event while readyState is
\* HEADERS_RECEIVED or LOADING, and returns with readyState DONE and
\* readystatechange dispatched for DONE, on success, error and timeout alike.
C20_SyncSendDirectToDone ==
    (lastCall.op = "send" /\ lastCall.res = "accepted" /\ ~settings.async) =>
        /\ readyState = DONE
        /\ \A k \in DOMAIN events :
              events[k].ev \notin Handovers \cup {"request.abort"}
                  => events[k].rs \notin {HEADERS_RECEIVED, LOADING}
        /\ \E k \in DOMAIN events :
              events[k].ev = "readystatechange" /\ events[k].rs = DONE

-----------------------------------------------------------------------------
(* Callbacks of a request that was aborted *)

\* the step delivers a body chunk of send number i
ChunkOf(i) ==
    /\ lastCall'.op = "data" /\ Len(ops') = Len(ops)
    /\ ops'[i].chunks = ops[i].chunks + 1

\* C21: a body chunk delivered after abort() changes neither readyState nor
\* responseText and dispatches no event.
C21_ChunkAfterAbortDiscarded ==
    [][\A i \in DOMAIN ops :
          (ops[i].cancelled /\ ~ops[i].live /\ ChunkOf(i))
            => /\ readyState' = readyState
               /\ responseText' = responseText
               /\ events' = <<>>]_vars

-----------------------------------------------------------------------------
(* Headers received *)

\* C22: when the headers of a response arrive, the readystatechange for
\* HEADERS_RECEIVED is dispatched with status already equal to the status
\* code of the response.
C22_StatusBeforeHeadersReceived ==
    (lastCall.op = "response" /\ lastCall.res = "ok") =>
        \A k \in DOMAIN events :
            (events[k].ev = "readystatechange" /\ events[k].rs = HEADERS_RECEIVED)
                => events[k].st = response.statusCode

-----------------------------------------------------------------------------
(* The error path *)

\* the step runs the error path: an error of the transport is delivered, the
\* file cannot be read, or the synchronous request fails
ErrorPath ==
    \/ lastCall'.op \in {"requestError", "responseError"}
    \/ lastCall'.op \in {"readFile", "send"} /\ lastCall'.res \in {"ok", "accepted"}
          /\ "error" \in Range(Names(events'))

\* C23: the error path ends in DONE with status 0 and the error flag set,
\* and dispatches error, then readystatechange for DONE, then loadend, and
\* no load.
C23_ErrorPath ==
    [][ErrorPath =>
          /\ readyState' = DONE /\ status' = 0 /\ errorFlag'
          /\ Names(events') \in {<<"error", "readystatechange", "loadend">>,
                                  <<"loadstart", "error", "readystatechange", "loadend">>}
          /\ \A k \in DOMAIN events' :
                events'[k].ev = "readystatechange" => events'[k].rs = DONE]_vars

-----------------------------------------------------------------------------
(* The transport handle *)

\* C24: once the current request has completed, failed with a transport
\* error, timed out or been aborted, the object holds no transport handle.
C24_HandleReleased ==
    (HasSend /\ CurrentOp.term \in {"done", "error", "timeout", "abort"}) => request = 0

-----------------------------------------------------------------------------
(* The header set of a send *)

\* C25: the header set handed to the transport has no two names that are
\* equal ignoring letter case, and carries the default value of a default
\* header only if the caller has set no header of that name, in any casing,
\* since open().
C25_OneCasingPerHeader ==
    (lastCall.op = "send" /\ lastCall.res = "accepted") =>
        /\ \A n1, n2 \in DOMAIN outHeaders :
              toLowerCase(n1) = toLowerCase(n2) => n1 = n2
        /\ \A n \in DOMAIN outHeaders, d \in DOMAIN InitDefaultHeaders :
              (toLowerCase(n) = toLowerCase(d) /\ toLowerCase(d) \in DOMAIN given)
                  => InitDefaultHeaders[d][1] \notin Range(outHeaders[n])

-----------------------------------------------------------------------------
(* Reuse after a failure *)

\* open() has succeeded after the current asynchronous request ended by a
\* transport error or by its timer
ReopenedAfterFailure ==
    /\ lastCall.op = "open" /\ lastCall.res = "ok"
    /\ HasSend /\ CurrentOp.kind = "http"
    /\ CurrentOp.term \in {"error", "timeout"}

\* C26: after an asynchronous request has ended by transport error or by
\* timeout, a following open() leaves the send flag clear, and neither
\* setRequestHeader nor send() on the reopened object fails with InvalidState.
C26_ReusableAfterFailure ==
    ReopenedAfterFailure =>
        /\ ~sendFlag
        /\ setRequestHeader(Self, "X-Foo", "a").lastCall.res # "InvalidState"
        /\ send(Self, "", "ok", NoResponse).lastCall.res # "InvalidState"

-----------------------------------------------------------------------------
(* A timer that outlives its send *)

\* the step is the expiry of the timer send number i armed
ExpiryOf(i) ==
    /\ lastCall'.op = "timer" /\ Len(ops') = Len(ops)
    /\ ops[i].timer = "armed" /\ ops'[i].timer = "none"

\* send number i has reached DONE, has been aborted, or has been followed by
\* open() or by a newer send
Over(i) ==
    \/ ops[i].term # "none"
    \/ ~ops[i].live
    \/ i # Len(ops)

\* C27: the expiry of a timer whose send has reached DONE or has been aborted
\* dispatches no timeout event and changes no state, also when the object has
\* been reopened or a new request has been sent since.
C27_TimerOnlyForItsSend ==
    [][\A i \in DOMAIN ops :
          (Over(i) /\ ExpiryOf(i))
            => /\ \A k \in DOMAIN events' : events'[k].ev # "timeout"
               /\ <<readyState, status, responseText, errorFlag, sendFlag, request>>'
                    = <<readyState, status, responseText, errorFlag, sendFlag, request>>]_vars

-----------------------------------------------------------------------------
(* Callbacks of the request before the current one *)

\* the step delivers a callback of send number i: its response headers or a
\* redirect, a body chunk, the end, or an error
CallbackOf(i) ==
    /\ lastCall'.op \in {"response", "data", "end", "responseError", "requestError"}
    /\ Len(ops') = Len(ops)
    /\ \/ ops'[i].phase # ops[i].phase
       \/ ops'[i].chunks # ops[i].chunks
       \/ ops'[i].errored # ops[i].errored
       \/ ops'[i].redirectCount # ops[i].redirectCount

\* send number i was aborted, and open() and send() have started a new
\* request since
Superseded(i) ==
    /\ i < Len(ops) /\ ops[i].kind = "http" /\ ops[i].cancelled
    /\ CurrentOp.kind = "http" /\ CurrentOp.live

\* C28: once open() and send() have started a new request, a callback of the
\* previous, aborted request changes neither readyState nor status nor
\* responseText, dispatches no event and issues no transport request.
C28_StaleCallbacksIgnored ==
    [][\A i \in DOMAIN ops :
          (Superseded(i) /\ CallbackOf(i))
            => /\ <<readyState, status, responseText>>' = <<readyState, status, responseText>>
               /\ events' = <<>>]_vars

-----------------------------------------------------------------------------
(* abort() from inside a handler *)

\* C29: abort() called from inside a readystatechange handler leaves the
\* object aborted once the enclosing transport callback has finished: in
\* every reachable state with readyState = UNSENT, status is 0.
C29_AbortedMeansStatusZero ==
    readyState = UNSENT => status = 0

====
